---- MODULE Spec2Model ----
(***************************************************************************)
(* biliproxy: a reverse proxy in front of the Bilibili API.  The model     *)
(* follows src/server.js: the middleware chain (body parsers, CORS,        *)
(* scanner filter), the local endpoints, the cover sub-proxy, the WBI key  *)
(* cache with its upstream refresh, the signer, and the retry loop         *)
(* axiosWithRetry around the request builder buildAxiosConfig.             *)
(*                                                                         *)
(* Node runs one callback at a time and drains the promise continuations   *)
(* of a settled await before the next I/O callback.  An action is          *)
(* therefore the code that runs from one I/O event (request arrival,       *)
(* upstream response, upstream failure) to the next point where the        *)
(* request waits for the network.                                          *)
(***************************************************************************)
EXTENDS Integers, Sequences, FiniteSets, TLC

\* ------------------------------------------------------------------------
\* Strings.  Paths and urls are strings; characters are strings of length 1.
\* ------------------------------------------------------------------------

CharAt(s, i) == SubSeq(s, i, i)

StartsWith(s, t) == Len(s) >= Len(t) /\ SubSeq(s, 1, Len(t)) = t

EndsWith(s, t) == Len(s) >= Len(t) /\ SubSeq(s, Len(s) - Len(t) + 1, Len(s)) = t

Contains(s, t) == \E i \in 1..(Len(s) - Len(t) + 1) : SubSeq(s, i, i + Len(t) - 1) = t

UpperChars == "ABCDEFGHIJKLMNOPQRSTUVWXYZ"

LowerChars == "abcdefghijklmnopqrstuvwxyz"

\* String.prototype.toLowerCase on one character
LowerChar(c) ==
    IF \E i \in 1..Len(UpperChars) : CharAt(UpperChars, i) = c
    THEN CharAt(LowerChars, CHOOSE i \in 1..Len(UpperChars) : CharAt(UpperChars, i) = c)
    ELSE c

RECURSIVE ToLowerCase(_)
ToLowerCase(s) ==
    IF Len(s) = 0 THEN s
    ELSE LowerChar(CharAt(s, 1)) \o ToLowerCase(SubSeq(s, 2, Len(s)))

\* String.prototype.lastIndexOf for a one-character needle, as a 1-based
\* position; 0 when the character does not occur (JavaScript's -1).
LastIndexOf(s, c) ==
    IF \E i \in 1..Len(s) : CharAt(s, i) = c
    THEN CHOOSE i \in 1..Len(s) :
             /\ CharAt(s, i) = c
             /\ \A j \in (i + 1)..Len(s) : CharAt(s, j) # c
    ELSE 0

\* String.prototype.replace(pattern, "") for a literal pattern: the first
\* occurrence is removed.
ReplaceFirst(s, t) ==
    IF Contains(s, t)
    THEN LET i == CHOOSE k \in 1..(Len(s) - Len(t) + 1) :
                      /\ SubSeq(s, k, k + Len(t) - 1) = t
                      /\ \A j \in 1..(k - 1) : SubSeq(s, j, j + Len(t) - 1) # t
         IN  SubSeq(s, 1, i - 1) \o SubSeq(s, i + Len(t), Len(s))
    ELSE s

\* ------------------------------------------------------------------------
\* Scanner filter (server.js 82-112)
\* ------------------------------------------------------------------------

\* blockedPatterns.some(pattern => pattern.test(path)), one line per regex
MatchesBlockedPattern(path) ==
    \/ StartsWith(path, ".")
    \/ \E t \in {".git", ".svn", ".hg"} : Contains(path, t)
    \/ \E t \in {".env", ".config", ".conf"} : EndsWith(path, t)
    \/ \E t \in {".log", ".txt", ".bak"} : EndsWith(path, t)
    \/ \E t \in {".sql", ".db", ".sqlite"} : EndsWith(path, t)
    \/ \E t \in {".zip", ".tar", ".gz", ".rar"} : EndsWith(path, t)
    \/ \E t \in {"/admin", "/wp-admin", "/wp-"} : Contains(path, t)
    \/ \E t \in {"/vendor", "/node_modules", "/."} : Contains(path, t)
    \/ \E t \in {"/backup", "/backups"} : Contains(path, t)
    \/ \E t \in {"/test", "/tests"} : Contains(path, t)
    \/ Contains(path, "/.well-known")
    \/ \E t \in {".php", ".jsp", ".asp", ".py"} : EndsWith(path, t)
    \/ EndsWith(path, "/robots.txt")
    \/ Contains(path, "/sitemap")
    \/ EndsWith(path, "favicon.ico")

\* Variant: the patterns are tested against req.path as received
IsBlockedCaseSensitive(reqPath) == MatchesBlockedPattern(reqPath)

\* const path = req.path.toLowerCase(); isBlocked
IsBlocked(reqPath) == MatchesBlockedPattern(ToLowerCase(reqPath))

\* ------------------------------------------------------------------------
\* Values shared by the operators below
\* ------------------------------------------------------------------------

\* JavaScript's null (where an object is expected) / undefined (where a
\* string is expected)
Null == [null |-> TRUE]

Undefined == "undefined"

\* config.cache.wbiKeysExpiry: 8 * 60 * 60 seconds
WbiKeysExpiry == 28800

\* axiosWithRetry(configBuilder, maxRetries = 5)
DefaultMaxRetries == 5

\* const cache = { wbiKeys: null, wbiKeysExpiry: 0 }
EmptyCache == [wbiKeys |-> Null, wbiKeysExpiry |-> 0]

NavUrl == "https://api.bilibili.com/x/web-interface/nav"

\* ------------------------------------------------------------------------
\* WBI signer (server.js 29-34, 117-121, 202-239)
\* ------------------------------------------------------------------------

MIXIN_KEY_ENC_TAB ==
    << 46, 47, 18, 2, 53, 8, 23, 32, 15, 50, 10, 31, 58, 3, 45, 35, 27, 43, 5, 49,
       33, 9, 42, 19, 29, 28, 14, 39, 12, 38, 41, 13, 37, 48, 7, 16, 24, 55, 40, 61,
       26, 17, 0, 1, 60, 51, 30, 4, 22, 25, 54, 21, 56, 59, 6, 63, 57, 62, 11, 36,
       20, 34, 44, 52 >>

RECURSIVE JoinChars(_, _, _)
\* orig[tab[i]] for i = from..Len(tab), joined; orig[n] is 0-based in the source
JoinChars(orig, tab, from) ==
    IF from > Len(tab) THEN ""
    ELSE CharAt(orig, tab[from] + 1) \o JoinChars(orig, tab, from + 1)

\* String.prototype.slice(0, n)
SliceTo(s, n) == SubSeq(s, 1, IF Len(s) < n THEN Len(s) ELSE n)

\* Variant: the first 32 characters of the input, not permuted
getMixinKeyUnpermuted(orig) == SliceTo(orig, 32)

\* MIXIN_KEY_ENC_TAB.map(n => orig[n]).join("").slice(0, 32)
getMixinKey(orig) == SliceTo(JoinChars(orig, MIXIN_KEY_ENC_TAB, 1), 32)

\* Characters in UTF-16 code unit order, as far as the model's strings use them
CodeOrder == "!%&'()*-./0123456789:=?ABCDEFGHIJKLMNOPQRSTUVWXYZ_abcdefghijklmnopqrstuvwxyz~"

CharCode(c) == CHOOSE i \in 1..Len(CodeOrder) : CharAt(CodeOrder, i) = c

RECURSIVE StrLess(_, _)
\* a < b in the order Array.prototype.sort uses by default
StrLess(a, b) ==
    IF Len(b) = 0 THEN FALSE
    ELSE IF Len(a) = 0 THEN TRUE
    ELSE IF CharAt(a, 1) = CharAt(b, 1)
         THEN StrLess(SubSeq(a, 2, Len(a)), SubSeq(b, 2, Len(b)))
         ELSE CharCode(CharAt(a, 1)) < CharCode(CharAt(b, 1))

RECURSIVE NatToStr(_)
\* String(n) for a non-negative integer
NatToStr(n) ==
    IF n < 10 THEN CharAt("0123456789", n + 1)
    ELSE NatToStr(n \div 10) \o CharAt("0123456789", (n % 10) + 1)

RECURSIVE StripSpecial(_)
\* value.replace(/[!'()*]/g, "")
StripSpecial(v) ==
    IF Len(v) = 0 THEN v
    ELSE IF CharAt(v, 1) \in {"!", "'", "(", ")", "*"}
         THEN StripSpecial(SubSeq(v, 2, Len(v)))
         ELSE CharAt(v, 1) \o StripSpecial(SubSeq(v, 2, Len(v)))

\* encodeURIComponent on one character: unreserved characters are kept
EncodeChar(c) ==
    CASE c = "%" -> "%25"
      [] c = "&" -> "%26"
      [] c = "/" -> "%2F"
      [] c = ":" -> "%3A"
      [] c = "=" -> "%3D"
      [] c = "?" -> "%3F"
      [] OTHER -> c

RECURSIVE encodeURIComponent(_)
encodeURIComponent(s) ==
    IF Len(s) = 0 THEN s
    ELSE EncodeChar(CharAt(s, 1)) \o encodeURIComponent(SubSeq(s, 2, Len(s)))

\* A JavaScript object with string keys is a sequence of <<key, value>>
\* pairs in property order, no key twice.  Property order is the order
\* Object.keys and Object.entries enumerate in: the keys that are array
\* indices (canonical decimal numbers) first, in ascending numeric order,
\* then the other keys in the order they were added.
Keys(obj) == {obj[i][1] : i \in DOMAIN obj}

IsDigit(c) == \E i \in 1..10 : CharAt("0123456789", i) = c

DigitValue(c) == (CHOOSE i \in 1..10 : CharAt("0123456789", i) = c) - 1

\* The key is an array index: digits only, no leading zero
IsIndexKey(k) ==
    /\ Len(k) > 0
    /\ \A i \in 1..Len(k) : IsDigit(CharAt(k, i))
    /\ Len(k) = 1 \/ CharAt(k, 1) # "0"

RECURSIVE StrToNat(_)
StrToNat(k) ==
    IF Len(k) = 0 THEN 0
    ELSE 10 * StrToNat(SubSeq(k, 1, Len(k) - 1)) + DigitValue(CharAt(k, Len(k)))

\* An existing key a is enumerated before a key k that is added now
EnumeratedBefore(a, k) ==
    IF IsIndexKey(k) THEN IsIndexKey(a) /\ StrToNat(a) < StrToNat(k) ELSE TRUE

Get(obj, k) == obj[CHOOSE i \in DOMAIN obj : obj[i][1] = k][2]

Has(obj, k) == k \in Keys(obj)

\* { ...obj, [k]: v } and obj[k] = v: an existing key keeps its place and
\* takes the new value, a new key goes to its place in property order
Put(obj, k, v) ==
    IF Has(obj, k)
    THEN [i \in DOMAIN obj |-> IF obj[i][1] = k THEN <<k, v>> ELSE obj[i]]
    ELSE SelectSeq(obj, LAMBDA e : EnumeratedBefore(e[1], k))
         \o << <<k, v>> >>
         \o SelectSeq(obj, LAMBDA e : ~EnumeratedBefore(e[1], k))

RECURSIVE SortKeys(_)
\* Object.keys(obj).sort()
SortKeys(ks) ==
    IF ks = {} THEN << >>
    ELSE LET m == CHOOSE k \in ks : \A o \in ks \ {k} : StrLess(k, o)
         IN  <<m>> \o SortKeys(ks \ {m})

RECURSIVE JoinPairs(_, _)
\* entries.map(([k, v]) => enc(k) + "=" + enc(v)).join("&")
JoinPairs(obj, from) ==
    IF from > Len(obj) THEN ""
    ELSE encodeURIComponent(obj[from][1]) \o "=" \o encodeURIComponent(obj[from][2])
         \o (IF from < Len(obj) THEN "&" ELSE "")
         \o JoinPairs(obj, from + 1)

QueryString(obj) == JoinPairs(obj, 1)

RECURSIVE ReduceSorted(_, _, _, _)
\* .reduce((acc, key) => { acc[key] = filtered value; return acc }, {}) over
\* the keys ks[from..]
ReduceSorted(paramsWithWts, ks, from, acc) ==
    IF from > Len(ks) THEN acc
    ELSE ReduceSorted(paramsWithWts, ks, from + 1,
                      Put(acc, ks[from], StripSpecial(Get(paramsWithWts, ks[from]))))

\* Variant: the entries are hashed in the order the parameters came in
SortedParamsAsSupplied(paramsWithWts) ==
    [i \in DOMAIN paramsWithWts |->
        <<paramsWithWts[i][1], StripSpecial(paramsWithWts[i][2])>>]

\* sortedParams of signWithWbi: the keys are sorted and the filtered values
\* are assigned, key by key in that order, to a fresh object
SortedParams(paramsWithWts) ==
    ReduceSorted(paramsWithWts, SortKeys(Keys(paramsWithWts)), 1, << >>)

\* crypto.createHash("md5").update(s).digest("hex"): the digest is a value
\* that is equal for equal inputs and different for different inputs
Md5Hex(s) == "md5:" \o s

\* Variant: the filtered, sorted mapping that was hashed is what is returned
SignParamsFiltered(params, keys, t) ==
    LET mixinKey      == getMixinKey(keys.imgKey \o keys.subKey)
        wts           == NatToStr(t)
        paramsWithWts == Put(params, "wts", wts)
        sortedParams  == SortedParams(paramsWithWts)
        w_rid         == Md5Hex(QueryString(sortedParams) \o mixinKey)
    IN  [w_rid  |-> w_rid,
         wts    |-> wts,
         params |-> Put(Put(sortedParams, "w_rid", w_rid), "wts", wts)]

\* signWithWbi after keys have been obtained: [w_rid, wts, params].  The
\* number wts is kept as its decimal rendering, which is what String() and
\* encodeURIComponent() make of it wherever it is used.
SignParams(params, keys, t) ==
    LET mixinKey      == getMixinKey(keys.imgKey \o keys.subKey)
        wts           == NatToStr(t)
        paramsWithWts == Put(params, "wts", wts)
        query         == QueryString(SortedParams(paramsWithWts))
        w_rid         == Md5Hex(query \o mixinKey)
    IN  [w_rid  |-> w_rid,
         wts    |-> wts,
         params |-> Put(Put(params, "w_rid", w_rid), "wts", wts)]

\* ------------------------------------------------------------------------
\* WBI key cache (server.js 23-26, 126-197)
\* ------------------------------------------------------------------------

\* url.substring(url.lastIndexOf("/") + 1, url.lastIndexOf(".")); substring
\* swaps its arguments when the first is the larger one
KeyFromUrl(url) ==
    LET a  == LastIndexOf(url, "/")
        b  == LastIndexOf(url, ".") - 1
        lo == IF a <= b THEN a ELSE b
        hi == IF a <= b THEN b ELSE a
    IN  SubSeq(url, lo + 1, hi)

\* The part of fetchWbiKeys after the response arrived: "ok" with the keys,
\* or "throw" (no wbi_img, or a url that is not a string)
ParseNav(data) ==
    IF data.wbi_img /\ data.img_url # Undefined /\ data.sub_url # Undefined
    THEN [ok |-> TRUE,
          keys |-> [imgKey |-> KeyFromUrl(data.img_url), subKey |-> KeyFromUrl(data.sub_url)]]
    ELSE [ok |-> FALSE, keys |-> Null]

\* Variant: a pair that is still valid is not overwritten
CacheAfterFetchFirstWins(c, keys, t) ==
    IF c.wbiKeys # Null /\ t < c.wbiKeysExpiry THEN c
    ELSE [wbiKeys |-> keys, wbiKeysExpiry |-> t + WbiKeysExpiry]

\* Variant: the expiry is the lifetime alone, without the clock
CacheAfterFetchNoClock(c, keys, t) ==
    [wbiKeys |-> keys, wbiKeysExpiry |-> WbiKeysExpiry]

\* Variant: the pair is stored and the expiry is left as it was
CacheAfterFetchKeepExpiry(c, keys, t) ==
    [wbiKeys |-> keys, wbiKeysExpiry |-> c.wbiKeysExpiry]

\* cache.wbiKeys = { imgKey, subKey }; cache.wbiKeysExpiry = expiresAt
CacheAfterFetch(c, keys, t) ==
    [wbiKeys |-> keys, wbiKeysExpiry |-> t + WbiKeysExpiry]

\* Variant: a failed fetch drops the cached pair
CacheAfterFailedFetchReset(c) == EmptyCache

\* The throwing paths of fetchWbiKeys assign nothing
CacheAfterFailedFetch(c) == c

\* Variant: the pair still counts as valid at its expiry instant
CacheValidInclusive(c, t) == c.wbiKeys # Null /\ t <= c.wbiKeysExpiry

\* getWbiKeys: cache.wbiKeys && currentTime < cache.wbiKeysExpiry
CacheValid(c, t) == c.wbiKeys # Null /\ t < c.wbiKeysExpiry

\* ------------------------------------------------------------------------
\* Routing (server.js 37-38, 66-112, 242-268, 304-310, 367-373)
\* ------------------------------------------------------------------------

\* Express matches a route path case-insensitively and accepts one trailing
\* slash
RouteMatches(reqPath, route) ==
    LET p == ToLowerCase(reqPath) IN p = route \/ p = route \o "/"

\* "/cover/:filename": one non-empty segment after /cover/
CoverMatches(reqPath) ==
    LET p    == ToLowerCase(reqPath)
        rest == SubSeq(p, 8, Len(p))
        seg  == IF EndsWith(rest, "/") THEN SubSeq(rest, 1, Len(rest) - 1) ELSE rest
    IN  StartsWith(p, "/cover/") /\ Len(seg) > 0 /\ ~Contains(seg, "/")

\* req.params.filename
CoverFilename(reqPath) ==
    LET rest == SubSeq(reqPath, 8, Len(reqPath))
    IN  IF EndsWith(rest, "/") THEN SubSeq(rest, 1, Len(rest) - 1) ELSE rest

\* Variant: the scanner filter is registered before the CORS middleware
DispatchScannerFirst(method, reqPath, body) ==
    IF body = "malformed" THEN "bodyParser"
    ELSE IF IsBlocked(reqPath) THEN "scanner"
    ELSE IF method = "OPTIONS" THEN "cors"
    ELSE IF method \in {"GET", "HEAD"} /\ RouteMatches(reqPath, "/health") THEN "health"
    ELSE IF method \in {"GET", "HEAD"} /\ RouteMatches(reqPath, "/metrics") THEN "metrics"
    ELSE IF method \in {"GET", "HEAD"} /\ RouteMatches(reqPath, "/debug/wbi-keys") THEN "debug"
    ELSE IF method \in {"GET", "HEAD"} /\ RouteMatches(reqPath, "/robots.txt") THEN "robots"
    ELSE IF method \in {"GET", "HEAD"} /\ CoverMatches(reqPath) THEN "cover"
    ELSE IF reqPath = "/" THEN "root"
    ELSE "main"

\* Variant: the scanner filter is registered after the routes it shadows
DispatchRoutesFirst(method, reqPath, body) ==
    IF body = "malformed" THEN "bodyParser"
    ELSE IF method = "OPTIONS" THEN "cors"
    ELSE IF method \in {"GET", "HEAD"} /\ RouteMatches(reqPath, "/health") THEN "health"
    ELSE IF method \in {"GET", "HEAD"} /\ RouteMatches(reqPath, "/metrics") THEN "metrics"
    ELSE IF method \in {"GET", "HEAD"} /\ RouteMatches(reqPath, "/debug/wbi-keys") THEN "debug"
    ELSE IF method \in {"GET", "HEAD"} /\ RouteMatches(reqPath, "/robots.txt") THEN "robots"
    ELSE IF method \in {"GET", "HEAD"} /\ CoverMatches(reqPath) THEN "cover"
    ELSE IF IsBlocked(reqPath) THEN "scanner"
    ELSE IF reqPath = "/" THEN "root"
    ELSE "main"

\* The stage of the app that takes the request, in the order of the app.use
\* and app.get / app.all calls: body parsers, CORS middleware, scanner
\* filter, then the routes.
Dispatch(method, reqPath, body) ==
    IF body = "malformed" THEN "bodyParser"
    ELSE IF method = "OPTIONS" THEN "cors"
    ELSE IF IsBlocked(reqPath) THEN "scanner"
    ELSE IF method \in {"GET", "HEAD"} /\ RouteMatches(reqPath, "/health") THEN "health"
    ELSE IF method \in {"GET", "HEAD"} /\ RouteMatches(reqPath, "/metrics") THEN "metrics"
    ELSE IF method \in {"GET", "HEAD"} /\ RouteMatches(reqPath, "/debug/wbi-keys") THEN "debug"
    ELSE IF method \in {"GET", "HEAD"} /\ RouteMatches(reqPath, "/robots.txt") THEN "robots"
    ELSE IF method \in {"GET", "HEAD"} /\ CoverMatches(reqPath) THEN "cover"
    ELSE IF reqPath = "/" THEN "root"
    ELSE "main"

\* ------------------------------------------------------------------------
\* Responses
\* ------------------------------------------------------------------------

AllowMethodsMain == "GET, POST, PUT, DELETE, OPTIONS"

AllowMethodsCover == "GET, OPTIONS"

AllowHeaders == "Origin, X-Requested-With, Content-Type, Accept, Authorization"

\* No response yet
NoResp == [status |-> 0, body |-> Undefined,
           acao |-> Undefined, acam |-> Undefined, acah |-> Undefined, clen |-> FALSE]

\* The three res.header calls of the CORS middleware
\* and a body sent with res.send / res.json / res.sendStatus, which set
\* Content-Length
CorsResp(status, body) ==
    [status |-> status, body |-> body,
     acao |-> "*", acam |-> AllowMethodsMain, acah |-> AllowHeaders, clen |-> TRUE]

NotFoundBody == "{error:Not found}"

\* res.sendStatus(code) sends the status text as the body
StatusText(code) == IF code = 200 THEN "OK" ELSE NatToStr(code)

\* The response of a stage that answers without any upstream call.  The
\* body parsers answer a malformed body through Express' default error
\* handler, before the CORS middleware has run.  GET /metrics writes its
\* body with res.end, which puts no Content-Length among the headers res.get
\* reads.
LocalResponse(stage) ==
    CASE stage = "bodyParser" -> [NoResp EXCEPT !.status = 400, !.body = "Bad Request",
                                                !.clen = TRUE]
      [] stage = "cors"       -> CorsResp(200, StatusText(200))
      [] stage = "scanner"    -> CorsResp(404, NotFoundBody)
      [] stage = "root"       -> CorsResp(404, NotFoundBody)
      [] stage = "health"     -> CorsResp(200, "{status:ok}")
      [] stage = "metrics"    -> [CorsResp(200, "metrics") EXCEPT !.clen = FALSE]
      [] stage = "robots"     -> CorsResp(200, "User-agent: *\nDisallow: /\n")

\* No keys handed to the request
NoKeys == [imgKey |-> Undefined, subKey |-> Undefined]

\* Nothing shown by GET /debug/wbi-keys
NoSeen == [imgKey |-> Undefined, subKey |-> Undefined, expiresAt |-> 0]

\* res.json of GET /debug/wbi-keys: { ...keys, expiresAt: cache.wbiKeysExpiry }
DebugSeen(keys, c) ==
    [imgKey |-> keys.imgKey, subKey |-> keys.subKey, expiresAt |-> c.wbiKeysExpiry]

\* An Error: message and, for an axios error, error.config.url
TransportError(url) == [message |-> "timeout or connection error", url |-> url]

KeysError == [message |-> "Failed to fetch WBI keys", url |-> Undefined]

\* catch of app.all("*"): res.status(500).json({ error, message, url })
ProxyErrorBody(err) ==
    "{error:Proxy request failed,message:" \o err.message
        \o (IF err.url = Undefined THEN "" ELSE ",url:" \o err.url) \o "}"

\* catch of GET /cover/:filename
CoverErrorBody(err) == "{error:Cover proxy request failed,message:" \o err.message \o "}"

\* catch of GET /debug/wbi-keys
DebugErrorBody(err) == "{error:" \o err.message \o "}"

\* ------------------------------------------------------------------------
\* Request forwarder (server.js 375-478)
\* ------------------------------------------------------------------------

\* targetUrl of app.all("*")
TargetUrl(reqPath) ==
    IF StartsWith(reqPath, "/apivc")
    THEN "https://api.vc.bilibili.com" \o ReplaceFirst(reqPath, "/apivc")
    ELSE "https://api.bilibili.com" \o reqPath

\* Variant: every route is signed
ShouldSignAlways(reqPath) == TRUE

\* shouldSign of app.all("*")
ShouldSign(reqPath) == ~StartsWith(reqPath, "/apivc")

\* value.replace(/^av/i, "")
StripAvPrefix(v) ==
    IF Len(v) >= 2 /\ ToLowerCase(SubSeq(v, 1, 2)) = "av" THEN SubSeq(v, 3, Len(v)) ELSE v

\* A query parameter that is present and not the empty string
Truthy(query, k) == Has(query, k) /\ Get(query, k) # ""

\* referer of app.all("*")
Referer(query) ==
    IF Truthy(query, "avid")
    THEN "https://www.bilibili.com/video/av" \o StripAvPrefix(Get(query, "avid"))
    ELSE IF Truthy(query, "bvid")
    THEN "https://www.bilibili.com/video/" \o Get(query, "bvid")
    ELSE IF Truthy(query, "aid")
    THEN "https://www.bilibili.com/video/av" \o Get(query, "aid")
    ELSE "https://www.bilibili.com/"

\* One draw of the identity randomizer: userAgentGenerator().toString(),
\* Math.floor(Math.pow(Math.random(), 4) * 1e12), randomBytes(8).toString("hex")
Identities(n) ==
    [ua : {"UA-" \o NatToStr(i) : i \in 1..n},
     dedeUserID : {NatToStr(i) : i \in 1..n},
     ckMd5 : {"ck" \o NatToStr(i) : i \in 1..n}]

\* extraCookies of buildAxiosConfig
ExtraCookies(sessdata, id) ==
    (IF sessdata # "" THEN <<"SESSDATA=" \o sessdata>> ELSE << >>)
    \o <<"DedeUserID=" \o id.dedeUserID, "DedeUserID__ckMd5=" \o id.ckMd5>>

RECURSIVE JoinWith(_, _)
\* Array.prototype.join(sep)
JoinWith(parts, sep) ==
    IF Len(parts) = 0 THEN ""
    ELSE IF Len(parts) = 1 THEN parts[1]
    ELSE parts[1] \o sep \o JoinWith(Tail(parts), sep)

\* The names buildAxiosConfig deletes from the headers
DeletedHeaders ==
    {"host", "content-length", "x-forwarded-for", "x-forwarded-host",
     "x-forwarded-proto", "via", "x-real-ip", "cf-connecting-ip", "cf-ipcountry",
     "cf-ray", "cf-visitor"}

\* delete headers[name], for every name of the list
DeleteHeaders(headers) == SelectSeq(headers, LAMBDA e : e[1] \notin DeletedHeaders)

\* headers of buildAxiosConfig: the inbound headers (Node hands them over
\* under lower-case names), then User-Agent, Referer, Origin and Cookie
\* under these very names, then the deletes
OutboundHeaders(inbound, referer, id, sessdata) ==
    DeleteHeaders(
        Put(Put(Put(Put(inbound, "User-Agent", id.ua), "Referer", referer),
                "Origin", referer),
            "Cookie", JoinWith(ExtraCookies(sessdata, id), "; ")))

\* No outbound request built yet
NoConfig ==
    [method |-> Undefined, url |-> Undefined, ua |-> Undefined, referer |-> Undefined,
     origin |-> Undefined, cookies |-> << >>, wts |-> Undefined, w_rid |-> Undefined,
     data |-> Undefined, headers |-> << >>]

\* What the builder has when it does not sign: signedParams = req.query
Unsigned(query) == [w_rid |-> Undefined, wts |-> Undefined, params |-> query]

\* url of buildAxiosConfig: the query string is appended for a GET only
RequestUrl(q, params) ==
    LET qs == QueryString(params)
    IN  IF q.method = "GET" /\ qs # "" THEN q.targetUrl \o "?" \o qs ELSE q.targetUrl

\* Variant: a retry takes the site root as Referer and Origin
BuildAxiosConfigRootOnRetry(q, signed, url, id, sessdata) ==
    LET referer == IF q.attempt > 1 THEN "https://www.bilibili.com/" ELSE q.referer
    IN  [method  |-> q.method,
         url     |-> url,
         ua      |-> id.ua,
         referer |-> referer,
         origin  |-> referer,
         cookies |-> ExtraCookies(sessdata, id),
         wts     |-> signed.wts,
         w_rid   |-> signed.w_rid,
         data    |-> q.body,
         headers |-> OutboundHeaders(q.headers, referer, id, sessdata)]

\* buildAxiosConfig from the url on: the fresh identity and the headers.
\* ua, referer, origin and cookies are the values put under "User-Agent",
\* "Referer", "Origin" and "Cookie"; headers is the whole object.
BuildAxiosConfig(q, signed, url, id, sessdata) ==
        [method  |-> q.method,
         url     |-> url,
         ua      |-> id.ua,
         referer |-> q.referer,
         origin  |-> q.referer,
         cookies |-> ExtraCookies(sessdata, id),
         wts     |-> signed.wts,
         w_rid   |-> signed.w_rid,
         data    |-> q.body,
         headers |-> OutboundHeaders(q.headers, q.referer, id, sessdata)]

\* What an outbound request carries of signature, timestamp and identity
Material(config) ==
    (IF config.wts = Undefined THEN {} ELSE {"wts=" \o config.wts, "w_rid=" \o config.w_rid})
    \cup {"User-Agent=" \o config.ua}
    \cup {"Cookie " \o config.cookies[i] : i \in DOMAIN config.cookies}

\* axiosConfig of GET /cover/:filename
CoverConfig(q, id) ==
    [NoConfig EXCEPT
         !.method  = "GET",
         !.url     = "https://i0.hdslb.com/bfs/archive/" \o CoverFilename(q.path),
         !.ua      = id.ua,
         !.referer = "https://www.bilibili.com/",
         !.cookies = <<"DedeUserID=" \o id.dedeUserID, "DedeUserID__ckMd5=" \o id.ckMd5>>,
         !.headers = << <<"User-Agent", id.ua>>,
                        <<"Referer", "https://www.bilibili.com/">>,
                        <<"Cookie", "DedeUserID=" \o id.dedeUserID
                                        \o "; DedeUserID__ckMd5=" \o id.ckMd5>> >>]

\* ------------------------------------------------------------------------
\* Retry controller (server.js 276-301)
\* ------------------------------------------------------------------------

\* Variant: only a 200 ends the loop early
ReturnsResponseRetry404(status, attempt, maxRetries) ==
    IF status = 200 THEN TRUE
    ELSE IF attempt < maxRetries THEN FALSE
    ELSE TRUE

\* The three ifs of the loop body after a response arrived: TRUE when the
\* loop returns the response, FALSE when it continues with the next attempt
ReturnsResponse(status, attempt, maxRetries) ==
    IF status = 404 THEN TRUE
    ELSE IF status = 200 THEN TRUE
    ELSE IF attempt < maxRetries THEN FALSE
    ELSE TRUE

\* Object.entries(response.headers).forEach(([key, value]) => res.set(key,
\* value)): of the upstream's headers the model carries its
\* Access-Control-Allow-Origin, Undefined when it sends none
CopyHeaders(resp, response) ==
    [resp EXCEPT !.acao = IF response.acao = Undefined THEN @ ELSE response.acao]

\* Variant: the response of the first attempt is kept
ClientResponseFirst(received) ==
    CorsResp(received[1].status, received[1].data)

\* res.status(response.status).send(response.data) after the upstream's
\* headers were copied and the three CORS headers set over them, response
\* being what axiosWithRetry returned: the last one received
ClientResponse(received) ==
    LET response == received[Len(received)]
    IN  [CopyHeaders(CorsResp(response.status, response.data), response)
            EXCEPT !.acao = "*", !.acam = AllowMethodsMain, !.acah = AllowHeaders]

\* The response of GET /cover/:filename: upstream headers copied, then
\* Access-Control-Allow-Origin and -Methods set; Access-Control-Allow-Headers
\* stays as the CORS middleware set it
CoverResponse(response) ==
    [CopyHeaders(CorsResp(response.status, response.data), response)
        EXCEPT !.acao = "*", !.acam = AllowMethodsCover]

\* ------------------------------------------------------------------------
\* State
\* ------------------------------------------------------------------------

VARIABLES
    now,        \* Math.floor(Date.now() / 1000)
    cache,      \* the cache object of server.js 23-26
    req,        \* the inbound requests, by id: each handler's position and locals,
                \* with the history of what it called, sent and received
    fetchLog,   \* history: the {imgKey, subKey, expiresAt} of every successful fetch
    crossings,  \* history: expiry crossings so far (the empty cache counts as one)
    env         \* the deployment and its clients and upstreams; never changes

vars == <<now, cache, req, fetchLog, crossings, env>>

\* Bounds of the model
MaxSeconds == 1

MaxTtlJumps == 1

MaxRand == 2

NumReq == 2

\* Key fragments the identity endpoint hands out
ImgKeys == {"7cd084941338484aae1ad9425b84077c", "1f2e3d4c5b6a79880716253443526170"}

SubKeys == {"4932caff0ff746eab6f01bf08b70ac45", "a0b1c2d3e4f5061728394a5b6c7d8e9f"}

WbiUrl(key) == "https://i0.hdslb.com/bfs/wbi/" \o key \o ".png"

\* response.data.data of the identity endpoint: well-formed ones, one
\* without wbi_img, one whose wbi_img has no sub_url
NavOk == [wbi_img : {TRUE}, img_url : {WbiUrl(k) : k \in ImgKeys}, sub_url : {WbiUrl(k) : k \in SubKeys}]

\* Two well-formed answers that differ in both fragments
NavTwo == {[wbi_img |-> TRUE, img_url |-> WbiUrl("7cd084941338484aae1ad9425b84077c"),
            sub_url |-> WbiUrl("4932caff0ff746eab6f01bf08b70ac45")],
           [wbi_img |-> TRUE, img_url |-> WbiUrl("1f2e3d4c5b6a79880716253443526170"),
            sub_url |-> WbiUrl("a0b1c2d3e4f5061728394a5b6c7d8e9f")]}

NavBad == {[wbi_img |-> FALSE, img_url |-> Undefined, sub_url |-> Undefined],
           [wbi_img |-> TRUE, img_url |-> WbiUrl("7cd084941338484aae1ad9425b84077c"), sub_url |-> Undefined]}

AllPaths ==
    {"/", "/.env", "/wp-admin/x", "/backup/1", "/a.php", "/A.PHP", "/WP-Admin/x",
     "/x/web-interface/nav", "/apivc/x", "/health", "/metrics", "/debug/wbi-keys",
     "/robots.txt", "/cover/a.jpg", "/cover/b.png", "/cover/a.php"}

\* One path of each kind
FewPaths == {"/", "/.env", "/x/web-interface/nav", "/apivc/x", "/health", "/debug/wbi-keys", "/cover/a.jpg"}

\* The paths that read the key cache, a blocked one and a cover
ConcPaths == {"/.env", "/x/web-interface/nav", "/debug/wbi-keys", "/cover/a.jpg"}

\* Paths for the request builder: the two route prefixes, a path that only
\* begins with the letters of the alternate prefix, and one of each other
\* kind of handler
BuildPaths ==
    {"/.env", "/x/web-interface/view", "/apivc/x", "/apivc.example.com/x",
     "/debug/wbi-keys", "/cover/a.jpg"}

\* req.query of the requests to the builder: the three video ids alone and
\* together, values with the characters the signer filters, and names the
\* signer itself adds
BuildQueries ==
    {<< >>,
     << <<"avid", "av170001">> >>,
     << <<"avid", "AV17">>, <<"bvid", "BV1xx">> >>,
     << <<"avid", "x17">> >>,
     << <<"avid", "">>, <<"bvid", "BV1xx">>, <<"aid", "9">> >>,
     << <<"aid", "9">> >>,
     << <<"kw", "a!b(c)*'">>, <<"bvid", "BV1xx">> >>,
     << <<"wts", "123">>, <<"aid", "9">> >>,
     << <<"w_rid", "zz">> >>}

\* req.headers of the requests to the builder
BuildHeaders ==
    {<< >>,
     << <<"host", "proxy.local">>, <<"user-agent", "curl">>,
        <<"x-forwarded-for", "10.0.0.1">>, <<"via", "1.1 edge">>,
        <<"cf-ray", "abc">>, <<"content-length", "2">>, <<"accept", "*/*">> >>,
     << <<"x-forwarded-port", "443">> >>,
     << <<"cf-worker", "example.com">> >>}

\* req.query of the requests to the signer: the same parameters supplied in
\* two orders, and keys that are numbers
SignQueries ==
    {<< <<"aid", "9">>, <<"bvid", "BV1xx">> >>,
     << <<"bvid", "BV1xx">>, <<"aid", "9">> >>,
     << <<"9", "a">>, <<"10", "b">> >>,
     << <<"10", "b">>, <<"z", "1">>, <<"a", "2">> >>}

Methods == {"GET", "POST", "OPTIONS"}

Bodies == {"{}", "malformed"}

\* Dispatch, tabulated
StageOf == [m \in Methods, p \in AllPaths \cup BuildPaths, b \in Bodies |-> Dispatch(m, p, b)]

NoUpstream == [key |-> 0, forward |-> 0, cover |-> 0]

\* A request that has not arrived
Idle ==
    [pc |-> "idle", stage |-> "none", method |-> Undefined, path |-> Undefined,
     body |-> Undefined, query |-> << >>, targetUrl |-> Undefined, shouldSign |-> FALSE,
     referer |-> Undefined, attempt |-> 0, builderCalls |-> 0, keyCalls |-> 0,
     upstream |-> NoUpstream, out |-> NoConfig, keys |-> NoKeys, keySnap |-> EmptyCache,
     received |-> << >>, sent |-> {}, seen |-> NoSeen, failed |-> "none", resp |-> NoResp,
     headers |-> << >>, observed |-> << >>, bytesCounted |-> << >>,
     signedParams |-> << >>, signedAt |-> 0]

\* The request as the handlers see it on arrival
Arrived(method, reqPath, body, query, headers) ==
    [Idle EXCEPT !.stage = StageOf[method, reqPath, body], !.method = method,
                 !.path = reqPath, !.body = body, !.query = query, !.headers = headers]

\* route of the metrics middleware
MetricsRoute(reqPath) == IF StartsWith(reqPath, "/cover/") THEN "/cover" ELSE reqPath

\* .labels(req.method, route, res.statusCode)
MetricsLabels(q, resp) ==
    [method |-> q.method, route |-> MetricsRoute(q.path), status |-> resp.status]

\* The 'finish' listener of the metrics middleware.  The middleware is
\* registered after the body parsers: a request they reject never reaches
\* it and has no listener.
OnFinish(q, resp) ==
    IF q.stage = "bodyParser" THEN q
    ELSE [q EXCEPT !.observed = Append(@, MetricsLabels(q, resp)),
                   !.bytesCounted = IF resp.clen THEN Append(@, MetricsLabels(q, resp))
                                    ELSE @]

\* res.send / res.json / res.sendStatus / res.end: the request is answered
\* and the response finishes
Answer(q, resp) == OnFinish([q EXCEPT !.pc = "done", !.resp = resp], resp)

InitWith(e) ==
    /\ now = 0
    /\ cache = EmptyCache
    /\ req = [r \in e.reqs |-> Idle]
    /\ fetchLog = {}
    /\ crossings = 1
    /\ env = e

\* One client, every path and method
Init ==
    \E sessdata \in {"", "sess"} :
        InitWith([reqs |-> {1}, methods |-> Methods, paths |-> AllPaths,
                  bodies |-> Bodies,
                  queries |-> {<< >>, << <<"bvid", "BV1xx">> >>},
                  statuses |-> {200, 404, 500}, rand |-> 1,
                  navs |-> NavOk \cup NavBad, sessdata |-> sessdata,
                  headers |-> {<< >>}, upstreamAcao |-> {Undefined}])

\* Several clients at once, GET requests that need keys and two that do
\* not, upstreams that answer 200 or fail
InitConc ==
    InitWith([reqs |-> 1..NumReq, methods |-> {"GET"}, paths |-> ConcPaths,
              bodies |-> {"{}"}, queries |-> {<< >>},
              statuses |-> {200}, rand |-> 1,
              navs |-> NavTwo \cup NavBad, sessdata |-> "",
              headers |-> {<< >>}, upstreamAcao |-> {Undefined}])

\* One client whose requests are retried, with a randomizer that has
\* several values to draw from
InitRetry ==
    \E sessdata \in {"", "sess"} :
        InitWith([reqs |-> {1}, methods |-> Methods, paths |-> FewPaths,
                  bodies |-> Bodies, queries |-> {<< >>},
                  statuses |-> {200, 404, 500}, rand |-> MaxRand,
                  navs |-> NavOk \cup NavBad, sessdata |-> sessdata,
                  headers |-> {<< >>}, upstreamAcao |-> {Undefined}])

\* One client of the request builder: queries and headers of every kind,
\* upstreams that answer 200, with or without a CORS header of their own,
\* or fail
InitBuild ==
    InitWith([reqs |-> {1}, methods |-> Methods, paths |-> BuildPaths,
              bodies |-> Bodies, queries |-> BuildQueries,
              statuses |-> {200}, rand |-> 1,
              navs |-> NavTwo \cup NavBad, sessdata |-> "sess",
              headers |-> BuildHeaders,
              upstreamAcao |-> {Undefined, "https://www.bilibili.com"}])

\* Two clients of the signer, with the queries of SignQueries
InitSign ==
    InitWith([reqs |-> 1..NumReq, methods |-> {"GET"}, paths |-> ConcPaths,
              bodies |-> {"{}"}, queries |-> SignQueries,
              statuses |-> {200}, rand |-> 1,
              navs |-> NavTwo \cup NavBad, sessdata |-> "",
              headers |-> {<< >>}, upstreamAcao |-> {Undefined}])

\* ------------------------------------------------------------------------
\* Actions
\* ------------------------------------------------------------------------

\* Time passes: by a second, or by a second less than the keys' lifetime
Tick ==
    /\ \E d \in {1, WbiKeysExpiry - 1} :
          /\ d = 1 => now % (WbiKeysExpiry - 1) < MaxSeconds
          /\ d # 1 => now \div (WbiKeysExpiry - 1) < MaxTtlJumps
          /\ now' = now + d
    /\ crossings' = IF cache.wbiKeys # Null /\ now < cache.wbiKeysExpiry
                       /\ now' >= cache.wbiKeysExpiry
                    THEN crossings + 1 ELSE crossings
    /\ UNCHANGED <<cache, req, fetchLog, env>>

\* getWbiKeys finds no valid pair: fetchWbiKeys issues its axios.get
StartFetch(q) ==
    [q EXCEPT !.pc = "keyFetch", !.keyCalls = @ + 1, !.keySnap = cache,
              !.upstream.key = @ + 1]

\* The builder has its config and axiosWithRetry issues axios(config)
Issue(q, config) ==
    [q EXCEPT !.pc = "forward", !.upstream.forward = @ + 1, !.out = config,
              !.sent = @ \cup Material(config)]

\* The builder from signedParams on: the url is put together, an identity
\* is drawn, and the attempt is issued
BuildAndIssue(r, q, signed) ==
    \E url \in {RequestUrl(q, signed.params)}, id \in Identities(env.rand) :
        req' = [req EXCEPT ![r] =
            Issue(q, BuildAxiosConfig(q, signed, url, id, env.sessdata))]

\* The builder from the point where signWithWbi has its keys: it signs at
\* the current second
SignAndIssue(r, q, keys) ==
    \E signed \in {SignParams(q.query, keys, now)} :
        BuildAndIssue(r, [q EXCEPT !.keys = keys, !.signedParams = signed.params,
                                   !.signedAt = now], signed)

\* One iteration of axiosWithRetry, from its head to the first await that
\* leaves the process: the builder signs from the cache when it can
StartAttempt(r, q0) ==
    LET q == [q0 EXCEPT !.attempt = @ + 1, !.builderCalls = @ + 1] IN
    IF q.method = "GET" /\ q.shouldSign
    THEN IF CacheValid(cache, now)
         THEN SignAndIssue(r, [q EXCEPT !.keyCalls = @ + 1], cache.wbiKeys)
         ELSE req' = [req EXCEPT ![r] = StartFetch(q)]
    ELSE BuildAndIssue(r, q, Unsigned(q.query))

\* Requests are numbered in the order they arrive
IsNextArrival(r) ==
    /\ req[r].pc = "idle"
    /\ \A o \in DOMAIN req : o < r => req[o].pc # "idle"

\* A request arrives and is answered by a stage that needs no upstream
ArriveLocal(r) ==
    /\ IsNextArrival(r)
    /\ \E m \in env.methods, p \in env.paths, b \in env.bodies, qy \in env.queries,
          hs \in env.headers :
          LET q == Arrived(m, p, b, qy, hs) IN
          /\ q.stage \in {"bodyParser", "cors", "scanner", "root", "health", "metrics", "robots"}
          /\ req' = [req EXCEPT ![r] = Answer(q, LocalResponse(q.stage))]
    /\ UNCHANGED <<now, cache, fetchLog, crossings, env>>

\* GET /debug/wbi-keys arrives: answered from the cache, or a fetch starts
ArriveDebug(r) ==
    /\ IsNextArrival(r)
    /\ \E m \in env.methods, p \in env.paths, b \in env.bodies, qy \in env.queries,
          hs \in env.headers :
          LET q == Arrived(m, p, b, qy, hs) IN
          /\ q.stage = "debug"
          /\ req' = [req EXCEPT ![r] =
                IF CacheValid(cache, now)
                THEN Answer([q EXCEPT !.keyCalls = @ + 1, !.keys = cache.wbiKeys,
                                      !.seen = DebugSeen(cache.wbiKeys, cache)],
                            CorsResp(200, "debug"))
                ELSE StartFetch(q)]
    /\ UNCHANGED <<now, cache, fetchLog, crossings, env>>

\* GET /cover/:filename arrives: the image request is issued
ArriveCover(r) ==
    /\ IsNextArrival(r)
    /\ \E m \in env.methods, p \in env.paths, b \in env.bodies, qy \in env.queries,
          hs \in env.headers, id \in Identities(env.rand) :
          LET q == Arrived(m, p, b, qy, hs) IN
          /\ q.stage = "cover"
          /\ req' = [req EXCEPT ![r] =
                [q EXCEPT !.pc = "coverFetch", !.upstream.cover = @ + 1,
                          !.out = CoverConfig(q, id)]]
    /\ UNCHANGED <<now, cache, fetchLog, crossings, env>>

\* A request arrives at app.all("*") with a path other than "/": the route
\* decision is taken and the first attempt starts
ArriveMain(r) ==
    /\ IsNextArrival(r)
    /\ \E m \in env.methods, p \in env.paths, b \in env.bodies, qy \in env.queries,
          hs \in env.headers :
          LET q == Arrived(m, p, b, qy, hs) IN
          /\ q.stage = "main"
          /\ StartAttempt(r, [q EXCEPT !.targetUrl = TargetUrl(p),
                                       !.shouldSign = ShouldSign(p),
                                       !.referer = Referer(qy)])
    /\ UNCHANGED <<now, cache, fetchLog, crossings, env>>

\* Variant: the catch answers 502
ProxyErrorResponse502(err) == CorsResp(502, ProxyErrorBody(err))

\* catch of app.all("*")
ProxyErrorResponse(err) == CorsResp(500, ProxyErrorBody(err))

\* catch of GET /debug/wbi-keys
DebugErrorResponse(err) == CorsResp(500, DebugErrorBody(err))

\* Variant: the error of fetchWbiKeys is caught nowhere and no response is
\* sent
FetchFailedUnanswered(q, err) == [q EXCEPT !.failed = "keys", !.pc = "unanswered"]

\* fetchWbiKeys throws: the error travels up to the catch of the handler
\* that asked for keys
FetchFailed(q, err) ==
    Answer([q EXCEPT !.failed = "keys"],
           IF q.stage = "debug" THEN DebugErrorResponse(err) ELSE ProxyErrorResponse(err))

\* The identity endpoint answers a key fetch.  With wbi_img the keys are
\* stored and returned, and the caller goes on: the builder signs with the
\* returned pair and the attempt is issued, or the debug endpoint answers.
\* Without, fetchWbiKeys throws.
KeyFetchReturn(r) ==
    /\ req[r].pc = "keyFetch"
    /\ \E data \in env.navs :
          LET q   == req[r]
              nav == ParseNav(data)
          IN  IF nav.ok
              THEN /\ cache' = CacheAfterFetch(cache, nav.keys, now)
                   /\ fetchLog' = fetchLog \cup
                         {[imgKey |-> nav.keys.imgKey, subKey |-> nav.keys.subKey,
                           expiresAt |-> now + WbiKeysExpiry]}
                   /\ IF q.stage = "debug"
                      THEN req' = [req EXCEPT ![r] =
                               Answer([q EXCEPT !.keys = nav.keys,
                                                !.seen = DebugSeen(nav.keys, cache')],
                                      CorsResp(200, "debug"))]
                      ELSE SignAndIssue(r, q, nav.keys)
              ELSE /\ cache' = CacheAfterFailedFetch(cache)
                   /\ req' = [req EXCEPT ![r] = FetchFailed(q, KeysError)]
                   /\ UNCHANGED fetchLog
    /\ UNCHANGED <<now, crossings, env>>

\* The key fetch fails in transport (unreachable, timeout)
KeyFetchError(r) ==
    /\ req[r].pc = "keyFetch"
    /\ cache' = CacheAfterFailedFetch(cache)
    /\ req' = [req EXCEPT ![r] = FetchFailed(req[r], TransportError(NavUrl))]
    /\ UNCHANGED <<now, fetchLog, crossings, env>>

\* The upstream answers an attempt: the loop returns the response to the
\* handler, which answers the client, or goes on to the next attempt
ForwardReturn(r) ==
    /\ req[r].pc = "forward"
    /\ \E status \in env.statuses, acao \in env.upstreamAcao :
          LET response == [status |-> status, data |-> "body-" \o NatToStr(req[r].attempt),
                           acao |-> acao]
              q        == [req[r] EXCEPT !.received = Append(@, response)]
          IN  IF ReturnsResponse(status, q.attempt, DefaultMaxRetries)
              THEN req' = [req EXCEPT ![r] = Answer(q, ClientResponse(q.received))]
              ELSE StartAttempt(r, q)
    /\ UNCHANGED <<now, cache, fetchLog, crossings, env>>

\* An attempt fails in transport: axios(config) rejects, nothing in
\* axiosWithRetry catches it, the handler's catch answers
ForwardError(r) ==
    /\ req[r].pc = "forward"
    /\ req' = [req EXCEPT ![r] =
          Answer([req[r] EXCEPT !.failed = "transport"],
                 ProxyErrorResponse(TransportError(req[r].out.url)))]
    /\ UNCHANGED <<now, cache, fetchLog, crossings, env>>

\* The image host answers: status and bytes are passed on
CoverReturn(r) ==
    /\ req[r].pc = "coverFetch"
    /\ \E status \in env.statuses, acao \in env.upstreamAcao :
          req' = [req EXCEPT ![r] =
              Answer(req[r], CoverResponse([status |-> status, data |-> "image",
                                            acao |-> acao]))]
    /\ UNCHANGED <<now, cache, fetchLog, crossings, env>>

\* The image request fails in transport
CoverError(r) ==
    /\ req[r].pc = "coverFetch"
    /\ req' = [req EXCEPT ![r] =
          Answer([req[r] EXCEPT !.failed = "transport"],
                 CorsResp(500, CoverErrorBody(TransportError(req[r].out.url))))]
    /\ UNCHANGED <<now, cache, fetchLog, crossings, env>>

Next ==
    \/ Tick
    \/ \E r \in DOMAIN req : ArriveLocal(r)
    \/ \E r \in DOMAIN req : ArriveDebug(r)
    \/ \E r \in DOMAIN req : ArriveCover(r)
    \/ \E r \in DOMAIN req : ArriveMain(r)
    \/ \E r \in DOMAIN req : KeyFetchReturn(r)
    \/ \E r \in DOMAIN req : KeyFetchError(r)
    \/ \E r \in DOMAIN req : ForwardReturn(r)
    \/ \E r \in DOMAIN req : ForwardError(r)
    \/ \E r \in DOMAIN req : CoverReturn(r)
    \/ \E r \in DOMAIN req : CoverError(r)

Spec == Init /\ [][Next]_vars

SpecConc == InitConc /\ [][Next]_vars

SpecRetry == InitRetry /\ [][Next]_vars

SpecBuild == InitBuild /\ [][Next]_vars

SpecSign == InitSign /\ [][Next]_vars

\* Every upstream call ends: axios resolves or, at the latest when
\* config.proxy.timeout has passed, rejects
UpstreamCallsEnd ==
    \A r \in 1..NumReq :
        /\ WF_vars(r \in DOMAIN req /\ (KeyFetchReturn(r) \/ KeyFetchError(r)))
        /\ WF_vars(r \in DOMAIN req /\ (ForwardReturn(r) \/ ForwardError(r)))
        /\ WF_vars(r \in DOMAIN req /\ (CoverReturn(r) \/ CoverError(r)))

SpecLive == Init /\ [][Next]_vars /\ UpstreamCallsEnd

\* ------------------------------------------------------------------------
\* Properties
\* ------------------------------------------------------------------------

\* A main-pipeline request that axiosWithRetry ended with a response
Returned(q) == q.stage = "main" /\ q.pc = "done" /\ q.failed = "none"

Terminal == {200, 404}

StatusesOf(q) == [i \in DOMAIN q.received |-> q.received[i].status]

\* The request has arrived with a body the parsers accept
Parsed(q) == q.pc # "idle" /\ q.body # "malformed"

\* The path matches the denylist once lower-cased, or is the bare root
Denied(q) == IsBlocked(q.path) \/ q.path = "/"

HasCors(resp) ==
    /\ resp.acao = "*"
    /\ resp.acam = "GET, POST, PUT, DELETE, OPTIONS"
    /\ resp.acah = "Origin, X-Requested-With, Content-Type, Accept, Authorization"

\* C1: when axiosWithRetry returns a response, the builder was invoked
\* exactly k times, k being the index of the first 200 or 404 if there is one
\* among the first N = 5 statuses and N otherwise; one forward was issued per
\* invocation and the response returned is that of attempt k.
C1_RetryCount ==
    \A r \in DOMAIN req :
        LET q == req[r]
            k == q.builderCalls
        IN  /\ q.builderCalls <= DefaultMaxRetries
            /\ Returned(q) =>
                  /\ k \in 1..5
                  /\ q.upstream.forward = k
                  /\ Len(q.received) = k
                  /\ \A i \in 1..(k - 1) : q.received[i].status \notin Terminal
                  /\ q.received[k].status \in Terminal \/ k = 5
                  /\ q.resp.status = q.received[k].status

\* C1 witness: [500,500,500,500,200] returned the 200 after 5 calls
C1_Witness ==
    \E r \in DOMAIN req :
        /\ Returned(req[r])
        /\ StatusesOf(req[r]) = <<500, 500, 500, 500, 200>>
        /\ req[r].builderCalls = 5
        /\ req[r].resp.status = 200

\* C2: an attempt carries no w_rid, wts, User-Agent or cookie that an
\* earlier attempt of the same request carried.
C2_NoReuseBetweenAttempts ==
    [][\A r \in DOMAIN req :
          req'[r].upstream.forward = req[r].upstream.forward + 1
              => Material(req'[r].out) \cap req[r].sent = {}]_vars

\* C3: a request whose lower-cased path matches the denylist, or whose path
\* is "/", never causes an upstream call of any kind; /.env, /wp-admin/x,
\* /backup/1 and /a.php are such paths in any letter case, and a request to
\* /x/web-interface/nav reaches the forwarder.
C3_BlockedNeverForwarded ==
    \A r \in DOMAIN req :
        LET q == req[r] IN
        q.pc # "idle" =>
            /\ (Denied(q) \/ ToLowerCase(q.path) \in {"/.env", "/wp-admin/x", "/backup/1", "/a.php"})
                  => q.pc = "done" /\ q.upstream = NoUpstream
            /\ (q.path = "/x/web-interface/nav" /\ Parsed(q) /\ q.method # "OPTIONS")
                  => q.stage = "main" /\ q.upstream.key + q.upstream.forward >= 1

\* C3 witness: GET /A.PHP was answered 404 without an upstream call
C3_Witness ==
    \E r \in DOMAIN req :
        /\ req[r].path = "/A.PHP" /\ req[r].method = "GET" /\ Parsed(req[r])
        /\ req[r].resp.status = 404
        /\ req[r].upstream = NoUpstream

\* C7: a transport failure of a forward ends the request: the failing
\* attempt is the last one, and the client gets 500 with error and message.
C7_TransportFatal ==
    \A r \in DOMAIN req :
        LET q == req[r] IN
        (q.stage = "main" /\ q.failed = "transport") =>
            /\ q.pc = "done"
            /\ q.builderCalls = Len(q.received) + 1
            /\ q.upstream.forward = Len(q.received) + 1
            /\ q.resp.status = 500
            /\ StartsWith(q.resp.body, "{error:Proxy request failed,message:")

\* C7 witness: the third attempt failed in transport
C7_Witness ==
    \E r \in DOMAIN req :
        /\ req[r].stage = "main" /\ req[r].failed = "transport"
        /\ req[r].attempt = 3
        /\ req[r].resp.status = 500

\* C8: the status and body sent to the client are those of the last attempt
\* issued, never those of an earlier one.
C8_LastResponse ==
    \A r \in DOMAIN req :
        LET q == req[r] IN
        Returned(q) =>
            /\ q.resp.status = q.received[Len(q.received)].status
            /\ q.resp.body = "body-" \o NatToStr(q.upstream.forward)
            /\ \A i \in 1..(Len(q.received) - 1) : q.resp.body # q.received[i].data

\* C8 witness: five attempts, none terminal; the fifth response was sent
C8_Witness ==
    \E r \in DOMAIN req :
        /\ Returned(req[r])
        /\ StatusesOf(req[r]) = <<500, 500, 500, 500, 500>>
        /\ req[r].resp.body = "body-5"

RECURSIVE KeyFetches(_)
\* fetchWbiKeys calls so far, over the requests in rs
KeyFetches(rs) ==
    IF rs = {} THEN 0
    ELSE LET r == CHOOSE x \in rs : TRUE
         IN  req[r].upstream.key + KeyFetches(rs \ {r})

\* The step is the end of r's key fetch in failure
FetchFails(r) == req[r].pc = "keyFetch" /\ req'[r].failed = "keys"

\* What a failed key fetch does to the request that asked for the keys:
\* 500, no forward for this attempt, no further attempt
FatalForCaller(r) ==
    /\ req'[r].pc = "done"
    /\ req'[r].resp.status = 500
    /\ req'[r].upstream = req[r].upstream
    /\ req'[r].builderCalls = req[r].builderCalls

\* C4 as stated: when a key fetch fails, the request gets 500, no forward is
\* issued and no further attempt made, and the cache has the values it had
\* before the fetch started.
C4_CacheAsBeforeFetch ==
    [][\A r \in DOMAIN req :
          FetchFails(r) => FatalForCaller(r) /\ cache' = req[r].keySnap]_vars

\* C4 amended: when a key fetch fails, the request gets 500, no forward is
\* issued and no further attempt made, and the failing fetch writes nothing
\* to the cache: the cache keeps the values it had when the failure arrived
\* (which another request's fetch may have written since this one started).
C4_FailedFetchWritesNothing ==
    [][\A r \in DOMAIN req :
          FetchFails(r) => FatalForCaller(r) /\ cache' = cache]_vars

\* C4 witness: a fetch failed while the cache held a pair
C4_Witness ==
    \E r \in DOMAIN req :
        /\ req[r].failed = "keys"
        /\ req[r].resp.status = 500
        /\ cache.wbiKeys # Null

\* C5 as stated: fetchWbiKeys is called once per expiry crossing, so never
\* more often than the cache has been empty or expired.
C5_OneFetchPerCrossing == KeyFetches(DOMAIN req) <= crossings

\* C5 amended: a getWbiKeys call made while a pair is cached and now <
\* expiresAt returns that pair, calls no fetchWbiKeys and leaves the cache
\* alone; a call made while the cache is empty or now >= expiresAt calls
\* fetchWbiKeys, once per such call (calls may overlap, and a fetch may fail).
C5_FetchIffExpired ==
    [][\A r \in DOMAIN req :
          req'[r].keyCalls = req[r].keyCalls + 1 =>
              IF cache.wbiKeys # Null /\ now < cache.wbiKeysExpiry
              THEN /\ req'[r].upstream.key = req[r].upstream.key
                   /\ req'[r].keys = cache.wbiKeys
                   /\ cache' = cache
              ELSE /\ req'[r].upstream.key = req[r].upstream.key + 1
                   /\ req'[r].pc = "keyFetch"]_vars

\* C5 witness: a call one second before the expiry was served from the cache
C5_Witness ==
    \E r \in DOMAIN req :
        /\ req[r].keyCalls = 1 /\ req[r].upstream.key = 0
        /\ req[r].keys = cache.wbiKeys
        /\ now = cache.wbiKeysExpiry - 1

\* C6: the cache is empty with expiry 0, or holds the imgKey, subKey and
\* expiry of one successful fetch; the pair signWithWbi gets and the pair
\* and expiry GET /debug/wbi-keys shows are those of one fetch as well.
C6_NoTornPair ==
    /\ \/ cache = [wbiKeys |-> Null, wbiKeysExpiry |-> 0]
       \/ /\ cache.wbiKeys # Null
          /\ [imgKey |-> cache.wbiKeys.imgKey, subKey |-> cache.wbiKeys.subKey,
              expiresAt |-> cache.wbiKeysExpiry] \in fetchLog
    /\ \A r \in DOMAIN req :
          /\ req[r].keys # NoKeys =>
                \E f \in fetchLog :
                    f.imgKey = req[r].keys.imgKey /\ f.subKey = req[r].keys.subKey
          /\ req[r].seen # NoSeen => req[r].seen \in fetchLog

\* C6 witness: two fetches that were in flight together have both
\* completed, the later overwriting the pair of the earlier, and the debug
\* endpoint has shown a pair
C6_Witness ==
    \E r1, r2 \in DOMAIN req :
        /\ r1 # r2
        /\ req[r1].upstream.key = 1 /\ req[r2].upstream.key = 1
        /\ req[r1].keySnap = EmptyCache /\ req[r2].keySnap = EmptyCache
        /\ req[r1].keys # NoKeys /\ req[r2].keys # NoKeys
        /\ req[r1].keys # req[r2].keys
        /\ req[r1].seen # NoSeen

\* The reserved paths and the stage that is registered for each
ReservedStage ==
    [p \in {"/health", "/metrics", "/debug/wbi-keys", "/robots.txt"} |->
        CASE p = "/health" -> "health"
          [] p = "/metrics" -> "metrics"
          [] p = "/debug/wbi-keys" -> "debug"
          [] p = "/robots.txt" -> "robots"]

\* C11: a GET to a reserved path (with a body the parsers accept) is taken by
\* the handler registered for it, not by the scanner filter and not by the
\* main pipeline, and is never forwarded; GET /robots.txt is answered 200
\* with the disallow-all text.
C11_ReservedLocal ==
    \A r \in DOMAIN req :
        LET q == req[r] IN
        (Parsed(q) /\ q.method = "GET" /\ q.path \in DOMAIN ReservedStage) =>
            /\ q.stage = ReservedStage[q.path]
            /\ q.upstream.forward = 0
            /\ (q.path = "/robots.txt" /\ q.pc = "done") =>
                  /\ q.resp.status = 200
                  /\ q.resp.body = "User-agent: *\nDisallow: /\n"

\* C12: every response sent to a client carries Access-Control-Allow-Origin:
\* *, whichever stage produced it and whatever the upstream sent for that
\* header.
C12_AllowOriginAlways ==
    \A r \in DOMAIN req :
        req[r].pc = "done" => req[r].resp.acao = "*"

\* The url of a request that carries the query as it came in
UrlWithQuery(targetUrl, query) ==
    IF Len(query) = 0 THEN targetUrl ELSE targetUrl \o "?" \o QueryString(query)

\* A main-pipeline request of which at least one attempt was issued
Forwarded(q) == q.stage = "main" /\ q.upstream.forward >= 1

\* C13: a request that is not a GET, or whose route needs no signature, is
\* sent with the inbound query unmodified; only a signed GET carries w_rid
\* and wts.
C13_QueryUnmodified ==
    \A r \in DOMAIN req :
        LET q == req[r] IN
        Forwarded(q) =>
            /\ (q.method # "GET" \/ ~q.shouldSign) =>
                  q.out.url = UrlWithQuery(q.targetUrl, q.query)
            /\ (q.out.w_rid # Undefined) <=> (q.method = "GET" /\ q.shouldSign)

\* The name of a header that tells of the proxy's surroundings
RevealsTopology(name) ==
    \/ name \in {"host", "content-length", "via"}
    \/ StartsWith(name, "x-forwarded-")
    \/ StartsWith(name, "cf-")

\* C14: no outbound request of the forwarder carries host, content-length,
\* via, or a header whose name starts with x-forwarded- or cf-, whatever the
\* inbound request carried; its User-Agent is the generated one.
C14_NoTopologyHeaders ==
    \A r \in DOMAIN req :
        LET q == req[r] IN
        Forwarded(q) =>
            /\ \A i \in DOMAIN q.out.headers :
                  ~RevealsTopology(ToLowerCase(q.out.headers[i][1]))
            /\ Get(q.out.headers, "User-Agent") = q.out.ua
            /\ StartsWith(q.out.ua, "UA-")

RECURSIVE StripNonDigits(_)
\* v without its leading characters that are not digits
StripNonDigits(v) ==
    IF Len(v) = 0 THEN v
    ELSE IF \E i \in 1..10 : CharAt("0123456789", i) = CharAt(v, 1) THEN v
    ELSE StripNonDigits(SubSeq(v, 2, Len(v)))

\* The Referer the precedence rule of C15 gives for a query
RefererByRule(query) ==
    IF Has(query, "avid")
    THEN "https://www.bilibili.com/video/av" \o StripNonDigits(Get(query, "avid"))
    ELSE IF Has(query, "bvid")
    THEN "https://www.bilibili.com/video/" \o Get(query, "bvid")
    ELSE IF Has(query, "aid")
    THEN "https://www.bilibili.com/video/av" \o Get(query, "aid")
    ELSE "https://www.bilibili.com/"

\* C15: Referer and Origin of every outbound main-pipeline request follow
\* the precedence avid, bvid, aid, site root; with avid the value is
\* .../video/av<digits>, the avid without any leading non-digit prefix.
C15_RefererPrecedence ==
    \A r \in DOMAIN req :
        LET q == req[r] IN
        Forwarded(q) =>
            /\ q.out.referer = RefererByRule(q.query)
            /\ q.out.origin = RefererByRule(q.query)
            /\ Get(q.out.headers, "Referer") = RefererByRule(q.query)
            /\ Get(q.out.headers, "Origin") = RefererByRule(q.query)

\* The part of a url after "https://"
AfterScheme(url) == SubSeq(url, 9, Len(url))

\* Position of the first "/" or "?" of s, Len(s) + 1 when there is none
AuthorityEnd(s) ==
    IF \E i \in 1..Len(s) : CharAt(s, i) \in {"/", "?"}
    THEN CHOOSE i \in 1..Len(s) :
             /\ CharAt(s, i) \in {"/", "?"}
             /\ \A j \in 1..(i - 1) : CharAt(s, j) \notin {"/", "?"}
    ELSE Len(s) + 1

\* The host a url names: its authority, without userinfo
HostOf(url) ==
    LET authority == SubSeq(AfterScheme(url), 1, AuthorityEnd(AfterScheme(url)) - 1)
    IN  SubSeq(authority, LastIndexOf(authority, "@") + 1, Len(authority))

\* The path a url names: from the end of the authority to the "?" or the end
PathOf(url) ==
    LET rest == SubSeq(AfterScheme(url), AuthorityEnd(AfterScheme(url)), Len(AfterScheme(url)))
        stop == IF Contains(rest, "?")
                THEN (CHOOSE i \in 1..Len(rest) :
                          /\ CharAt(rest, i) = "?"
                          /\ \A j \in 1..(i - 1) : CharAt(rest, j) # "?") - 1
                ELSE Len(rest)
    IN  SubSeq(rest, 1, stop)

\* C16: a path that starts with /apivc goes to the secondary host with that
\* prefix stripped and is never signed (no key-cache access, no w_rid, no
\* wts); every other path the main pipeline takes goes to the primary host
\* unchanged and is signed when the method is GET.
C16_RouteSelection ==
    \A r \in DOMAIN req :
        LET q == req[r] IN
        q.stage = "main" =>
            IF StartsWith(q.path, "/apivc")
            THEN /\ q.keyCalls = 0 /\ q.upstream.key = 0
                 /\ q.out.w_rid = Undefined /\ q.out.wts = Undefined
                 /\ Forwarded(q) =>
                       /\ HostOf(q.out.url) = "api.vc.bilibili.com"
                       /\ PathOf(q.out.url) = SubSeq(q.path, 7, Len(q.path))
            ELSE Forwarded(q) =>
                       /\ HostOf(q.out.url) = "api.bilibili.com"
                       /\ PathOf(q.out.url) = q.path
                       /\ q.method = "GET" => q.out.w_rid # Undefined

\* C17: a request to /cover/<file> with a method other than GET and OPTIONS
\* causes no upstream call; a GET to /cover/<file> is forwarded to the image
\* host only, as a GET, unsigned.
C17_CoverGetOnly ==
    \A r \in DOMAIN req :
        LET q == req[r] IN
        (Parsed(q) /\ CoverMatches(q.path)) =>
            /\ q.method \notin {"GET", "OPTIONS"} => q.upstream = NoUpstream
            /\ (q.method = "GET" /\ q.upstream # NoUpstream) =>
                  /\ q.upstream.key = 0 /\ q.upstream.forward = 0
                  /\ HostOf(q.out.url) = "i0.hdslb.com"
                  /\ q.out.method = "GET"
                  /\ q.out.w_rid = Undefined

\* C18: every response to a GET or OPTIONS request on /cover/<file> (with a
\* body the parsers accept) carries Access-Control-Allow-Methods: GET,
\* OPTIONS; every response of the main pipeline carries GET, POST, PUT,
\* DELETE, OPTIONS.
C18_AllowMethods ==
    \A r \in DOMAIN req :
        LET q == req[r] IN
        (Parsed(q) /\ q.pc = "done") =>
            /\ (CoverMatches(q.path) /\ q.method \in {"GET", "OPTIONS"})
                  => q.resp.acam = "GET, OPTIONS"
            /\ q.stage = "main" => q.resp.acam = "GET, POST, PUT, DELETE, OPTIONS"

\* C19: every completed response has exactly one duration observation,
\* labelled with the request's method, the route and the status sent, every
\* path under /cover/ having the route label /cover; the byte counter is
\* incremented exactly when the response carries a Content-Length.
C19_OneObservation ==
    \A r \in DOMAIN req :
        LET q == req[r] IN
        q.pc = "done" =>
            /\ Len(q.observed) = 1
            /\ q.observed[1].method = q.method
            /\ q.observed[1].status = q.resp.status
            /\ q.observed[1].route =
                  (IF StartsWith(q.path, "/cover/") THEN "/cover" ELSE q.path)
            /\ Len(q.bytesCounted) = (IF q.resp.clen THEN 1 ELSE 0)

\* signWithWbi has returned to the builder of this request
Signed(q) == q.out.w_rid # Undefined

\* C20 as stated: the mapping signWithWbi returns has the keys of params
\* plus w_rid and wts, every parameter of params keeps its value, and params
\* itself is not modified.
C20_AllParamsKept ==
    /\ [](\A r \in DOMAIN req :
            LET q == req[r] IN
            Signed(q) =>
                /\ Keys(q.signedParams) = Keys(q.query) \cup {"w_rid", "wts"}
                /\ \A k \in Keys(q.query) : Get(q.signedParams, k) = Get(q.query, k))
    /\ [][\A r \in DOMAIN req : req[r].pc # "idle" => req'[r].query = req[r].query]_vars

\* C20 amended: the mapping signWithWbi returns has the keys of params plus
\* w_rid and wts; every parameter of params other than w_rid and wts keeps
\* its original, unfiltered value; w_rid and wts have the computed values,
\* also when params came with values of its own under these names; params
\* itself is not modified.
C20_SignedMerge ==
    /\ [](\A r \in DOMAIN req :
            LET q == req[r] IN
            Signed(q) =>
                /\ Keys(q.signedParams) = Keys(q.query) \cup {"w_rid", "wts"}
                /\ \A k \in Keys(q.query) \ {"w_rid", "wts"} :
                      Get(q.signedParams, k) = Get(q.query, k)
                /\ Get(q.signedParams, "wts") = NatToStr(q.signedAt)
                /\ Get(q.signedParams, "w_rid") = q.out.w_rid
                /\ StartsWith(q.out.w_rid, "md5:"))
    /\ [][\A r \in DOMAIN req : req[r].pc # "idle" => req'[r].query = req[r].query]_vars

\* C20 witness: a query whose value has the characters the signer filters
\* was signed, and the value came back unfiltered
C20_Witness ==
    \E r \in DOMAIN req :
        /\ Signed(req[r])
        /\ Has(req[r].query, "kw")
        /\ Get(req[r].signedParams, "kw") = "a!b(c)*'"
        /\ StripSpecial(Get(req[r].query, "kw")) = "abc"

\* The entries of a mapping, whatever their order
EntrySet(obj) == {obj[i] : i \in DOMAIN obj}

\* C21: two runs of signWithWbi with the same imgKey, subKey, wts and the
\* same parameters give the same w_rid, in whatever order the parameters were
\* supplied and whatever else the process state is.
C21_Deterministic ==
    \A r1, r2 \in DOMAIN req :
        (/\ Signed(req[r1]) /\ Signed(req[r2])
         /\ req[r1].keys = req[r2].keys
         /\ req[r1].signedAt = req[r2].signedAt
         /\ EntrySet(req[r1].query) = EntrySet(req[r2].query))
            => req[r1].out.w_rid = req[r2].out.w_rid

\* C21 witness: the same parameters in two different orders were signed in
\* the same second with the same pair, one run after a key fetch of its own
\* and one from the cache, and the signatures are equal
C21_Witness ==
    \E r1, r2 \in DOMAIN req :
        /\ Signed(req[r1]) /\ Signed(req[r2])
        /\ req[r1].query # req[r2].query
        /\ EntrySet(req[r1].query) = EntrySet(req[r2].query)
        /\ req[r1].keys = req[r2].keys
        /\ req[r1].signedAt = req[r2].signedAt
        /\ req[r1].upstream.key = 1 /\ req[r2].upstream.key = 0
        /\ req[r1].out.w_rid = req[r2].out.w_rid

\* The string signWithWbi hashed for the last attempt: the digest's input
\* without the 32 characters of the mixin key at its end
HashedQuery(q) == SubSeq(q.out.w_rid, 5, Len(q.out.w_rid) - 32)

\* The mixin key at the end of the digest's input
HashedMixinKey(q) == SubSeq(q.out.w_rid, Len(q.out.w_rid) - 31, Len(q.out.w_rid))

\* The entries of a mapping in ascending lexicographic order of their keys,
\* the values filtered
EntriesInKeyOrder(obj) ==
    LET ks == SortKeys(Keys(obj))
    IN  [i \in DOMAIN ks |-> <<ks[i], StripSpecial(Get(obj, ks[i]))>>]

\* C22: the string signWithWbi hashes has every entry of params plus wts
\* once, as key=value joined by &, in ascending lexicographic order of the
\* keys, for every set of keys.
C22_HashedInKeyOrder ==
    \A r \in DOMAIN req :
        LET q == req[r] IN
        Signed(q) =>
            HashedQuery(q) =
                QueryString(EntriesInKeyOrder(Put(q.query, "wts", NatToStr(q.signedAt))))

\* C23: MIXIN_KEY_ENC_TAB has 64 entries and every number of 0..63 once; the
\* mixin key a 64-character imgKey + subKey is signed with has 32 characters,
\* the i-th being the input character at index MIXIN_KEY_ENC_TAB[i].
C23_MixinKeyPermutes ==
    /\ Len(MIXIN_KEY_ENC_TAB) = 64
    /\ {MIXIN_KEY_ENC_TAB[i] : i \in 1..64} = 0..63
    /\ \A r \in DOMAIN req :
          LET q    == req[r]
              orig == q.keys.imgKey \o q.keys.subKey
          IN  (Signed(q) /\ Len(orig) = 64) =>
                  /\ Len(getMixinKey(orig)) = 32
                  /\ HashedMixinKey(q) = getMixinKey(orig)
                  /\ \A i \in 1..32 :
                        CharAt(HashedMixinKey(q), i) = CharAt(orig, MIXIN_KEY_ENC_TAB[i] + 1)
                  /\ Cardinality({MIXIN_KEY_ENC_TAB[i] : i \in 1..32}) = 32

\* C23 witness: a request was signed with a 64-character pair whose mixin
\* key is not the beginning of the pair
C23_Witness ==
    \E r \in DOMAIN req :
        /\ Signed(req[r])
        /\ Len(req[r].keys.imgKey \o req[r].keys.subKey) = 64
        /\ HashedMixinKey(req[r]) # req[r].keys.imgKey
        /\ CharAt(HashedMixinKey(req[r]), 1) = CharAt(req[r].keys.subKey, 15)

\* The step issues a further attempt of request r
Retries(r) ==
    /\ req[r].upstream.forward >= 1
    /\ req'[r].upstream.forward = req[r].upstream.forward + 1

\* The headers of an outbound request other than the regenerated ones
FixedHeaders(config) == {e \in EntrySet(config.headers) : e[1] \notin {"User-Agent", "Cookie"}}

\* C24: every attempt of a request after the first has the upstream host and
\* path, the method, the body, the signing decision and the Referer / Origin
\* of the attempt before it; the route decision held for the request does not
\* change.
C24_RouteConstant ==
    [][\A r \in DOMAIN req :
          Retries(r) =>
              LET a == req[r].out
                  b == req'[r].out
              IN  /\ HostOf(b.url) = HostOf(a.url)
                  /\ PathOf(b.url) = PathOf(a.url)
                  /\ b.method = a.method
                  /\ b.data = a.data
                  /\ (b.w_rid = Undefined) <=> (a.w_rid = Undefined)
                  /\ b.referer = a.referer /\ b.origin = a.origin
                  /\ FixedHeaders(b) = FixedHeaders(a)
                  /\ req'[r].targetUrl = req[r].targetUrl
                  /\ req'[r].shouldSign = req[r].shouldSign
                  /\ req'[r].referer = req[r].referer]_vars

\* C24 witness: a signed GET with a bvid was answered after three attempts,
\* the last one with the Referer of the video
C24_Witness ==
    \E r \in DOMAIN req :
        /\ Returned(req[r])
        /\ req[r].method = "GET" /\ req[r].shouldSign
        /\ StatusesOf(req[r]) = <<500, 500, 404>>
        /\ req[r].out.referer = "https://www.bilibili.com/video/BV1xx"
        /\ req[r].out.origin = "https://www.bilibili.com/video/BV1xx"

\* The requests whose key fetch is in flight
Fetching == {r \in DOMAIN req : req[r].pc = "keyFetch"}

\* The step is the successful end of r's key fetch
FetchSucceeds(r) ==
    /\ req[r].pc = "keyFetch"
    /\ req'[r].pc # "keyFetch"
    /\ req'[r].failed = "none"

\* C25: a getWbiKeys call made while the cache is empty or expired starts a
\* fetch of its own, also while fetches of other requests are in flight;
\* every fetch that succeeds writes its pair and its expiry to the cache, over
\* whatever is there, and the request that started it gets that pair and, in
\* the main pipeline, signs with it.
C25_NoSingleFlight ==
    [][\A r \in DOMAIN req :
          /\ (req'[r].keyCalls = req[r].keyCalls + 1 /\ ~CacheValid(cache, now)) =>
                Fetching' = Fetching \cup {r}
          /\ FetchSucceeds(r) =>
                /\ cache'.wbiKeys = req'[r].keys
                /\ cache'.wbiKeysExpiry = now + WbiKeysExpiry
                /\ req'[r].stage = "main" =>
                      HashedMixinKey(req'[r]) =
                          getMixinKey(req'[r].keys.imgKey \o req'[r].keys.subKey)]_vars

\* C25 witness: two fetches were in flight at once and both succeeded with
\* different pairs; the first request has signed with its own pair, which
\* the cache no longer holds
C25_Witness ==
    \E r1, r2 \in DOMAIN req :
        /\ r1 # r2
        /\ req[r1].stage = "main" /\ req[r2].stage = "main"
        /\ req[r1].upstream.key = 1 /\ req[r2].upstream.key = 1
        /\ req[r1].keySnap = EmptyCache /\ req[r2].keySnap = EmptyCache
        /\ Signed(req[r1]) /\ Signed(req[r2])
        /\ req[r1].keys # req[r2].keys
        /\ cache.wbiKeys = req[r2].keys
        /\ HashedMixinKey(req[r1]) = getMixinKey(req[r1].keys.imgKey \o req[r1].keys.subKey)

\* Signing does not apply to the request
Unsignable(q) ==
    /\ q.pc # "idle"
    /\ \/ q.body = "malformed"
       \/ q.method # "GET"
       \/ StartsWith(q.path, "/apivc")
       \/ CoverMatches(q.path)
       \/ Denied(q)
       \/ q.path \in {"/health", "/metrics"}

\* C26: a request to which signing does not apply (not a GET, under /apivc,
\* a cover, OPTIONS, denied by the scanner filter or the root check, /health,
\* /metrics) never calls getWbiKeys, never fetches keys, and none of its steps
\* changes the cache.
C26_UnsignedLeaveCache ==
    /\ [](\A r \in DOMAIN req :
            Unsignable(req[r]) =>
                /\ req[r].keyCalls = 0
                /\ req[r].upstream.key = 0
                /\ req[r].keys = NoKeys)
    /\ [][\A r \in DOMAIN req :
            (Unsignable(req'[r]) /\ req'[r] # req[r]) => cache' = cache]_vars

\* C26 witness: with the cache empty, a GET under /apivc was forwarded and
\* answered without a key fetch
C26_Witness ==
    \E r \in DOMAIN req :
        /\ req[r].method = "GET" /\ req[r].path = "/apivc/x"
        /\ req[r].pc = "done" /\ req[r].upstream.forward >= 1
        /\ req[r].upstream.key = 0
        /\ cache = EmptyCache

\* C27: provided every upstream call ends, every request that has arrived
\* is eventually answered; the main pipeline answers after at most 5 builder
\* invocations and 5 forwards; a request is answered once: after its
\* response nothing more happens to it.
C27_EveryRequestAnswered ==
    /\ \A r \in 1..NumReq :
          (r \in DOMAIN req /\ req[r].pc # "idle") ~> (r \in DOMAIN req /\ req[r].pc = "done")
    /\ [](\A r \in DOMAIN req :
            /\ req[r].builderCalls <= DefaultMaxRetries
            /\ req[r].upstream.forward <= DefaultMaxRetries
            /\ (req[r].pc = "done") <=> (req[r].resp.status # 0))
    /\ [][\A r \in DOMAIN req : req[r].pc = "done" => req'[r] = req[r]]_vars

\* C27 witness: the fifth forward failed in transport and the request was
\* answered 500, once
C27_Witness ==
    \E r \in DOMAIN req :
        /\ req[r].stage = "main" /\ req[r].pc = "done"
        /\ req[r].failed = "transport"
        /\ req[r].builderCalls = 5 /\ req[r].upstream.forward = 5
        /\ req[r].resp.status = 500
        /\ Len(req[r].observed) = 1

\* C28: the clock not going back, the expiry in the cache never decreases,
\* a cached pair is never replaced by none, and every write to the cache
\* sets the expiry to the time of the write plus the lifetime of the keys.
C28_ExpiryMonotone ==
    [][/\ now' >= now
       /\ cache'.wbiKeysExpiry >= cache.wbiKeysExpiry
       /\ cache.wbiKeys # Null => cache'.wbiKeys # Null
       /\ cache' # cache =>
             /\ cache'.wbiKeys # Null
             /\ cache'.wbiKeysExpiry = now' + WbiKeysExpiry]_vars

\* C28 witness: of two fetches started on the empty cache, the one started
\* first completed last, a second after the other, and its later expiry is
\* the one in the cache
C28_Witness ==
    \E r1, r2 \in DOMAIN req :
        /\ r1 < r2
        /\ req[r1].keySnap = EmptyCache /\ req[r2].keySnap = EmptyCache
        /\ req[r1].upstream.key = 1 /\ req[r2].upstream.key = 1
        /\ req[r1].keys # NoKeys /\ req[r2].keys # NoKeys
        /\ cache.wbiKeys = req[r1].keys
        /\ cache.wbiKeysExpiry = WbiKeysExpiry + 1
        /\ \E f \in fetchLog :
              /\ f.imgKey = req[r2].keys.imgKey
              /\ f.expiresAt = WbiKeysExpiry

====
